---- MODULE Spec2Model ----
(***************************************************************************)
(* Model of JPG-Cracker.py: the RegionScanner (segment walk, region map,   *)
(* largest_region, list_regions), damage_region (bit flipping) and the     *)
(* App handlers open_file and damage.                                      *)
(*                                                                         *)
(* Buffers are sequences of bytes 0..255.  Python offsets are 0-based: the *)
(* byte d[i] of the source is At(d, i) here.  Region names are shortened   *)
(* to their ASCII prefix ("DQT", "DHT", "SOS"; the others are ASCII).      *)
(***************************************************************************)
EXTENDS Integers, Sequences, FiniteSets, TLC

VARIABLES
    input,         \* RegionScanner(data): the bytes handed to the constructor
    scan,          \* the constructed RegionScanner (or NoScanner / a raised error)
    largest,       \* result of the last largest_region() call on scan
    listed,        \* result of the last list_regions() call on scan
    arg,           \* arguments of one damage_region call
    out,           \* outcome of that call
    orig_bytes,    \* App.orig_bytes
    scanner,       \* App.scanner
    region_var,    \* App.region_var (the combobox's selected text)
    combo_values,  \* App.region_combo["values"]
    loaded,        \* history: the bytes f.read() returned in the last open_file that read
    last           \* history: what the handler that ran last did

vars == <<input, scan, largest, listed, arg, out,
          orig_bytes, scanner, region_var, combo_values, loaded, last>>

scanVars == <<input, scan, largest, listed>>
dmgVars  == <<arg, out>>
appVars  == <<orig_bytes, scanner, region_var, combo_values, loaded, last>>

---------------------------------------------------------------------------
(* Bounds of the model *)

MaxChunks == 3      \* chunks after the signature in a scanned stream
MaxBufLen == 2      \* length of the buffers handed to damage_region alone
MaxBits   == 2      \* largest "small" bit count tried (besides the counts near size*8)
MaxAppBits == 2     \* largest bit count the App's spinbox is set to (besides size*8 + 1)

---------------------------------------------------------------------------
(* Bytes and markers of the source *)

ESC  == 255         \* 0xFF
SOI  == 216         \* 0xD8
EOI  == 217         \* 0xD9
LenMarkerLo == 192  \* 0xC0
LenMarkerHi == 254  \* 0xFE
DQT  == 219         \* 0xDB
DHT  == 196         \* 0xC4
SOS  == 218         \* 0xDA
APP0 == 224         \* 0xE0
EXIF == 225         \* 0xE1
COM  == 254         \* 0xFE
SOF0 == 192         \* 0xC0, a length-carrying marker without a name

At(d, i) == d[i + 1]

NoName == ""

\* the dict literal of _jpg_segments and its .get(marker)
MarkerName(marker) ==
    CASE marker = DQT  -> "DQT"
      [] marker = DHT  -> "DHT"
      [] marker = SOS  -> "SOS"
      [] marker = APP0 -> "APP0"
      [] marker = EXIF -> "EXIF"
      [] marker = COM  -> "COM"
      [] OTHER         -> NoName

Names == {"DQT", "DHT", "SOS", "APP0", "EXIF", "COM"}

\* int.from_bytes(d[i+2:i+4], 'big')
FromBytesBig(hi, lo) == hi * 256 + lo

---------------------------------------------------------------------------
(* RegionScanner *)

\* a region is the tuple (offset, length)
Off(r)  == r[1]
Size(r) == r[2]

\* the tuple stored for a named segment at cursor i
SegmentRegion(i, seg_len) == <<i + 2, seg_len - 2>>

SegmentFitsUnchecked(end, n) == TRUE

\* the negation of "if end > len(d): break"
SegmentFits(end, n) == end <= n

SetItemKeepFirst(st, name, val) ==
    IF name \in DOMAIN st.regions
    THEN st
    ELSE [st EXCEPT !.keys = Append(st.keys, name),
                    !.regions = (name :> val) @@ st.regions]

\* self.regions[name] = val on an insertion-ordered dict: a new key goes
\* last, an existing key keeps its place and takes the new value
SetItem(st, name, val) ==
    [st EXCEPT !.keys = IF name \in DOMAIN st.regions
                        THEN st.keys ELSE Append(st.keys, name),
               !.regions = (name :> val) @@ st.regions]

\* history: the segments the walk passed (cursor, tag, length field)
Walk(st, i, marker, seg_len) ==
    [st EXCEPT !.walked = Append(st.walked,
                  [cursor |-> i, marker |-> marker, seg_len |-> seg_len])]

EmptyRegions == [n \in {} |-> <<0, 0>>]

RECURSIVE JpgSegmentsFrom(_, _, _)
JpgSegmentsFrom(d, i, st) ==
    IF ~(i + 4 <= Len(d)) THEN st
    ELSE IF At(d, i) # ESC THEN JpgSegmentsFrom(d, i + 1, st)
    ELSE LET marker == At(d, i + 1) IN
         IF marker = EOI THEN st
         ELSE IF LenMarkerLo <= marker /\ marker <= LenMarkerHi
         THEN LET seg_len == FromBytesBig(At(d, i + 2), At(d, i + 3))
                  end     == i + 2 + seg_len
                  name    == MarkerName(marker)
              IN  IF ~SegmentFits(end, Len(d)) THEN st
                  ELSE JpgSegmentsFrom(d, end,
                         Walk(IF name # NoName
                              THEN SetItem(st, name, SegmentRegion(i, seg_len))
                              ELSE st,
                              i, marker, seg_len))
         ELSE JpgSegmentsFrom(d, i + 1, st)

\* _jpg_segments: the walk starts after SOI
JpgSegments(d) ==
    JpgSegmentsFrom(d, 2, [keys |-> <<>>, regions |-> EmptyRegions, walked |-> <<>>])

\* data.startswith(b'\xFF\xD8')
StartsWithSignature(d) == Len(d) >= 2 /\ At(d, 0) = ESC /\ At(d, 1) = SOI

\* RegionScanner(data): __init__ and _parse
RegionScanner(d) ==
    IF StartsWithSignature(d)
    THEN LET st == JpgSegments(d)
         IN  [err |-> "none", data |-> d, keys |-> st.keys,
              regions |-> st.regions, walked |-> st.walked]
    ELSE [err |-> "ValueError", data |-> d, keys |-> <<>>,
          regions |-> EmptyRegions, walked |-> <<>>]

NoScanner == [err |-> "unset", data |-> <<>>, keys |-> <<>>,
              regions |-> EmptyRegions, walked |-> <<>>]

RECURSIVE MaxLastFrom(_, _, _)
MaxLastFrom(sc, j, best) ==
    IF j > Len(sc.keys) THEN best
    ELSE MaxLastFrom(sc, j + 1,
            IF Size(sc.regions[sc.keys[j]]) >= Size(sc.regions[best])
            THEN sc.keys[j] ELSE best)

\* max(items, key=length) over the dict's items in order: the running best
\* is replaced only by a strictly greater key
RECURSIVE MaxFirstFrom(_, _, _)
MaxFirstFrom(sc, j, best) ==
    IF j > Len(sc.keys) THEN best
    ELSE MaxFirstFrom(sc, j + 1,
            IF Size(sc.regions[sc.keys[j]]) > Size(sc.regions[best])
            THEN sc.keys[j] ELSE best)

\* largest_region(): max() of an empty sequence raises ValueError
largest_region(sc) ==
    IF Len(sc.keys) = 0
    THEN [err |-> "ValueError", name |-> NoName]
    ELSE [err |-> "none", name |-> MaxFirstFrom(sc, 2, sc.keys[1])]

\* list_regions()
list_regions(sc) == sc.keys

---------------------------------------------------------------------------
(* damage_region *)

Pow2(k) == 2 ^ k

\* bit k of a byte
Bit(byte, k) == (byte \div Pow2(k)) % 2

\* byte ^ (1 << bit_i)
XorMask(byte, bit_i) ==
    IF Bit(byte, bit_i) = 1 THEN byte - Pow2(bit_i) ELSE byte + Pow2(bit_i)

\* one pass of the for loop: byte_i = off + b // 8; bit_i = b % 8;
\* data[byte_i] ^= 1 << bit_i
FlipOne(data, off, b) ==
    LET byte_i == off + (b \div 8)
        bit_i  == b % 8
    IN  [data EXCEPT ![byte_i + 1] = XorMask(@, bit_i)]

\* the for loop over idxs, every index inside the buffer
RECURSIVE FlipBits(_, _, _)
FlipBits(data, off, idxs) ==
    IF idxs = {} THEN data
    ELSE LET b == CHOOSE x \in idxs : TRUE
         IN  FlipBits(FlipOne(data, off, b), off, idxs \ {b})

\* the subsets of 0..n-1 with k elements
RECURSIVE KSubsets(_, _)
KSubsets(n, k) ==
    IF k = 0 THEN {{}}
    ELSE IF k < 0 \/ k > n THEN {}
    ELSE KSubsets(n - 1, k) \cup {S \cup {n - 1} : S \in KSubsets(n - 1, k - 1)}

\* random.sample(range(total_bits), bits): the index sets it can draw
\* (it raises ValueError for bits < 0 or bits > total_bits: no set)
Sample(total_bits, bits) == KSubsets(total_bits, bits)

RandStartWide(total_bits, bits) == 0 .. total_bits

\* random.randint(0, total_bits - bits): the starts it can draw
RandStart(total_bits, bits) == 0 .. (total_bits - bits)

\* range(start, start + bits)
Run(start, bits) == start .. (start + bits - 1)

InBuffer(data, off, idxs) == {b \in idxs : off + (b \div 8) < Len(data)}

\* The outcomes of damage_region(data, off, size, bits, mode), off >= 0.
\* err is the exception raised ("none": returned), data the buffer afterwards,
\* idxs the indices drawn.  An index whose byte lies past the buffer raises
\* IndexError after the indices before it were flipped: in "random" mode the
\* order of idxs is random, so any subset of the indices inside the buffer
\* may have been flipped; a run is walked upwards, so all of them were.
damage_region(data, off, size, bits, mode) ==
    LET total_bits == size * 8 IN
    IF bits > total_bits
    THEN {[err |-> "ValueError", data |-> data, idxs |-> {}]}
    ELSE IF mode = "random"
    THEN IF bits < 0
         THEN {[err |-> "ValueError", data |-> data, idxs |-> {}]}
         ELSE UNION {
                IF InBuffer(data, off, S) = S
                THEN {[err |-> "none", data |-> FlipBits(data, off, S), idxs |-> S]}
                ELSE {[err |-> "IndexError", data |-> FlipBits(data, off, P), idxs |-> S]
                        : P \in SUBSET InBuffer(data, off, S)}
                : S \in Sample(total_bits, bits)}
    ELSE {LET S == Run(start, bits) IN
          IF InBuffer(data, off, S) = S
          THEN [err |-> "none", data |-> FlipBits(data, off, S), idxs |-> S]
          ELSE [err |-> "IndexError",
                data |-> FlipBits(data, off, InBuffer(data, off, S)), idxs |-> S]
          : start \in RandStart(total_bits, bits)}

---------------------------------------------------------------------------
(* Inputs *)

Signature == <<ESC, SOI>>

\* pieces a stream is built from after the signature
Chunks ==
    { <<ESC, DQT, 0, 3, 17>>,        \* DQT, 1 payload byte
      <<ESC, DQT, 0, 4, 17, 34>>,    \* DQT, 2 payload bytes
      <<ESC, SOS, 0, 3, 51>>,        \* SOS, 1 payload byte
      <<ESC, SOF0, 0, 3, 85>>,       \* a segment without a name
      <<ESC, EOI>>,                  \* end marker
      <<0>>,                         \* stray fill byte
      <<ESC, 0>>,                    \* escape followed by a code below 0xC0
      <<ESC, DHT, 0, 2>>,            \* length field 2: no payload
      <<ESC, APP0, 0, 1>>,           \* length field 1
      <<ESC, COM, 0, 0>>,            \* length field 0
      <<ESC, SOS, 0, 9>>,            \* extends over what follows, or past the end
      <<ESC, DQT, 1, 0>> }           \* length field 256: past the end

RECURSIVE Streams(_)
Streams(n) ==
    IF n = 0 THEN {Signature}
    ELSE LET S == Streams(n - 1) IN S \cup {s \o c : s \in S, c \in Chunks}

NotJpg == { <<>>, <<ESC>>, <<137, 80, 78, 71>> }

ScanInputs == Streams(MaxChunks) \cup NotJpg

Buffers ==
    UNION { { [j \in 1..n |-> 0], [j \in 1..n |-> 165], [j \in 1..n |-> 255] }
            : n \in 1..MaxBufLen }

\* bit counts tried on a region of size bytes
BitsNear(size) == {8 * size - 1, 8 * size, 8 * size + 1}
BitsSmall == -1 .. MaxBits

DamageArgs ==
    { [data |-> d, off |-> o, size |-> sz, bits |-> b, mode |-> m] :
        d \in Buffers, o \in 0..MaxBufLen, sz \in -1..(MaxBufLen + 1),
        b \in -1..(8 * MaxBufLen + 9), m \in {"random", "seq"} }

DamageInputs ==
    { a \in DamageArgs :
        /\ a.off <= Len(a.data)
        /\ a.off + a.size <= Len(a.data) + 1
        /\ a.bits \in BitsSmall \cup
             (IF a.off + a.size <= Len(a.data)
              THEN BitsNear(a.size) ELSE {8 * a.size + 1}) }

\* the files the user can open
FileA   == <<ESC, SOI, ESC, DQT, 0, 2, ESC, SOS, 0, 3, 51, ESC, EOI>>
FileB   == <<ESC, SOI, ESC, SOS, 0, 3, 51, ESC, EOI>>
FileN   == <<ESC, SOI, ESC, SOF0, 0, 3, 85, ESC, EOI>>
FilePng == <<137, 80, 78, 71, 13, 10, 26, 10>>
AppFiles == {FileA, FileB, FileN, FilePng}

---------------------------------------------------------------------------
(* States *)

NoBytes == <<>>                 \* None (and the empty bytearray: "not orig_bytes")

NoCall == [called |-> FALSE, err |-> "none", value |-> <<>>]

NoArg == [data |-> <<>>, off |-> 0, size |-> 0, bits |-> 0, mode |-> "random"]

NoOutcome == [err |-> "unset", data |-> <<>>, idxs |-> {}]

NoAttempt ==
    [op |-> "none", result |-> "none", region |-> NoName, off |-> 0, size |-> 0,
     bits |-> 0, mode |-> "random", save |-> FALSE, filter |-> FALSE,
     err |-> "none", decodable |-> "n/a", damaged |-> <<>>, idxs |-> {},
     written |-> <<>>]

ScanIdle == /\ input = <<>> /\ scan = NoScanner /\ largest = NoCall /\ listed = NoCall
DmgIdle  == /\ arg = NoArg /\ out = NoOutcome
AppIdle  == /\ orig_bytes = NoBytes /\ scanner = NoScanner /\ region_var = NoName
            /\ combo_values = <<>> /\ loaded = NoBytes /\ last = NoAttempt

---------------------------------------------------------------------------
(* The scanner on its own: construction and the two queries *)

InitScan ==
    /\ input \in ScanInputs
    /\ scan = NoScanner /\ largest = NoCall /\ listed = NoCall
    /\ DmgIdle /\ AppIdle

Construct ==
    /\ scan.err = "unset"
    /\ scan' = RegionScanner(input)
    /\ UNCHANGED <<input, largest, listed, dmgVars, appVars>>

LargestRegion ==
    /\ scan.err = "none"
    /\ LET r == largest_region(scan)
       IN  largest' = [called |-> TRUE, err |-> r.err, value |-> r.name]
    /\ UNCHANGED <<input, scan, listed, dmgVars, appVars>>

ListRegions ==
    /\ scan.err = "none"
    /\ listed' = [called |-> TRUE, err |-> "none", value |-> list_regions(scan)]
    /\ UNCHANGED <<input, scan, largest, dmgVars, appVars>>

NextScan == Construct \/ LargestRegion \/ ListRegions

SpecScan == InitScan /\ [][NextScan]_vars

---------------------------------------------------------------------------
(* damage_region on its own *)

InitDamage ==
    /\ arg \in DamageInputs
    /\ out = NoOutcome
    /\ ScanIdle /\ AppIdle

DamageRegion ==
    /\ out.err = "unset"
    /\ out' \in damage_region(arg.data, arg.off, arg.size, arg.bits, arg.mode)
    /\ UNCHANGED <<arg, scanVars, appVars>>

NextDamage == DamageRegion

SpecDamage == InitDamage /\ [][NextDamage]_vars

---------------------------------------------------------------------------
(* The App *)

OrigAfterDamageAliased(orig, damaged) == damaged

\* damaged = bytearray(self.orig_bytes) is a new object: the flips that
\* damage_region makes in it do not reach self.orig_bytes
OrigAfterDamage(orig, damaged) == orig

\* _save_files: the pristine bytes, then the damaged bytes
save_files(orig, region, damaged) ==
    << [kind |-> "RAW", region |-> NoName, bytes |-> orig],
       [kind |-> "DAMAGED", region |-> region, bytes |-> damaged] >>

Init == ScanIdle /\ DmgIdle /\ AppIdle

\* open_file: path_given is the dialog's answer, f the file's bytes, pil_ok
\* whether Image.open(path) accepts the file
open_file ==
    \E path_given \in BOOLEAN, f \in AppFiles, pil_ok \in BOOLEAN :
      /\ last' = [NoAttempt EXCEPT !.op = "open_file"]
      /\ IF ~path_given \/ ~pil_ok
         THEN UNCHANGED <<orig_bytes, loaded, scanner, region_var, combo_values>>
         ELSE /\ orig_bytes' = f
              /\ loaded' = f
              /\ LET sc == RegionScanner(f) IN
                 IF sc.err # "none"          \* ValueError leaves the handler
                 THEN UNCHANGED <<scanner, region_var, combo_values>>
                 ELSE /\ scanner' = sc
                      /\ IF list_regions(sc) = <<>>
                         THEN UNCHANGED <<region_var, combo_values>>
                         ELSE /\ combo_values' = list_regions(sc)
                              /\ region_var' = largest_region(sc).name
      /\ UNCHANGED <<scanVars, dmgVars>>

\* the user picks an entry of the read-only combobox
select_region ==
    \E j \in 1..Len(combo_values) :
      /\ region_var' = combo_values[j]
      /\ last' = [NoAttempt EXCEPT !.op = "select"]
      /\ UNCHANGED <<orig_bytes, loaded, scanner, combo_values, scanVars, dmgVars>>

AppModes == {"random", "seq"}

AppBits(size) == (0 .. MaxAppBits) \cup {8 * size + 1}

\* damage: bits, mode, save and filter are the widgets' values, dec is the
\* codec's verdict on the damaged bytes (both Image.open calls read the same
\* bytes; bytes equal to the opened file's decode)
damage ==
    \E mode \in AppModes, save \in BOOLEAN, filter \in BOOLEAN :
      LET stop(why) ==
            /\ last' = [NoAttempt EXCEPT !.op = "damage", !.result = why,
                           !.region = region_var, !.mode = mode,
                           !.save = save, !.filter = filter]
            /\ UNCHANGED orig_bytes
      IN
      /\ IF orig_bytes = NoBytes THEN stop("no_file")
         ELSE IF region_var = NoName THEN stop("no_region")
         ELSE IF region_var \notin DOMAIN scanner.regions THEN stop("KeyError")
         ELSE LET r == scanner.regions[region_var] IN
              \E bits \in AppBits(Size(r)) :
              \E o \in damage_region(orig_bytes, Off(r), Size(r), bits, mode) :
              \E dec \in BOOLEAN :
                /\ o.err = "none" \/ dec
                /\ o.data = orig_bytes => dec
                /\ LET opened       == o.err = "none" /\ dec
                       is_decodable == dec
                       skip         == ~is_decodable /\ filter
                       written      == IF opened /\ ~skip /\ save
                                       THEN save_files(orig_bytes, region_var, o.data)
                                       ELSE <<>>
                   IN  last' =
                         [op |-> "damage",
                          result |-> IF opened THEN "done" ELSE "decode_failed",
                          region |-> region_var, off |-> Off(r), size |-> Size(r),
                          bits |-> bits, mode |-> mode, save |-> save,
                          filter |-> filter, err |-> o.err,
                          decodable |-> IF o.err # "none" THEN "n/a"
                                        ELSE IF dec THEN "yes" ELSE "no",
                          damaged |-> o.data, idxs |-> o.idxs,
                          written |-> written]
                /\ orig_bytes' = OrigAfterDamage(orig_bytes, o.data)
      /\ UNCHANGED <<loaded, scanner, region_var, combo_values, scanVars, dmgVars>>

Next == open_file \/ select_region \/ damage

Spec == Init /\ [][Next]_vars

---------------------------------------------------------------------------
(* Properties *)

\* the named segments the walk passed, as indices into sc.walked
NamedAt(sc, name) ==
    {j \in 1..Len(sc.walked) : MarkerName(sc.walked[j].marker) = name}

Min(S) == CHOOSE x \in S : \A y \in S : x <= y
Max(S) == CHOOSE x \in S : \A y \in S : x >= y

FirstSeen(sc, name) == Min(NamedAt(sc, name))
LastSeen(sc, name)  == Max(NamedAt(sc, name))

\* the bytes a region covers
Span(r) == Off(r) .. (Off(r) + Size(r) - 1)

\* the bit positions (8 * byte + bit) where two buffers of one length differ
DiffBits(a, b) ==
    {p \in 0 .. (8 * Len(a) - 1) :
        Bit(At(a, p \div 8), p % 8) # Bit(At(b, p \div 8), p % 8)}

IsBytes(d) == \A j \in 1..Len(d) : d[j] \in 0..255

\* C1: every named segment walked at cursor c with length field L is recorded
\* as the region (c + 4, L - 2): exactly its payload, none of its length field.
\* (Stated of the last segment of each name, whose region is the one kept.)
C1_RegionIsPayload ==
    scan.err = "none" =>
      \A j \in 1..Len(scan.walked) :
        LET w    == scan.walked[j]
            name == MarkerName(w.marker)
        IN  (name # NoName /\ j = LastSeen(scan, name)) =>
               /\ name \in DOMAIN scan.regions
               /\ scan.regions[name] = <<w.cursor + 4, w.seg_len - 2>>

\* C2: for every input that starts with the signature, every region lies
\* inside the buffer (0 <= offset, offset + length <= len) and no two regions
\* share a byte.
C2_RegionsInBoundsDisjoint ==
    scan.err = "none" =>
      /\ \A n \in DOMAIN scan.regions :
            /\ 0 <= Off(scan.regions[n])
            /\ Off(scan.regions[n]) + Size(scan.regions[n]) <= Len(scan.data)
      /\ \A n, m \in DOMAIN scan.regions :
            n # m => Span(scan.regions[n]) \cap Span(scan.regions[m]) = {}

C2_Witness ==
    /\ scan.err = "none"
    /\ \E n, m \in DOMAIN scan.regions :
          /\ n # m
          /\ Size(scan.regions[n]) > 0 /\ Size(scan.regions[m]) > 0
    /\ \E j \in 1..Len(scan.walked) :      \* a segment reaching the buffer's end
          scan.walked[j].cursor + 2 + scan.walked[j].seg_len = Len(scan.data)

DamagePre ==
    /\ out.err # "unset"
    /\ 1 <= arg.bits /\ arg.bits <= arg.size * 8
    /\ arg.off + arg.size <= Len(arg.data)

\* C3: a damage_region call with 1 <= bits <= size*8 and off + size <= len
\* returns, and the buffer then differs from the buffer before in exactly
\* bits bit positions, all inside bytes [off, off + size), in both modes and
\* for every random draw.
C3_ExactFlipsInsideRegion ==
    DamagePre =>
      /\ out.err = "none"
      /\ Len(out.data) = Len(arg.data)
      /\ IsBytes(out.data)
      /\ Cardinality(DiffBits(arg.data, out.data)) = arg.bits
      /\ \A p \in DiffBits(arg.data, out.data) :
            8 * arg.off <= p /\ p < 8 * (arg.off + arg.size)

C3_Witness ==
    /\ DamagePre
    /\ arg.mode = "seq"
    /\ arg.bits >= 2
    /\ \E p, q \in DiffBits(arg.data, out.data) : p \div 8 # q \div 8

\* C4: for every bits outside 1..size*8 (0 and negative counts included)
\* damage_region raises, and the buffer is unchanged.
C4_OutOfRangeFails ==
    (out.err # "unset" /\ (arg.bits < 1 \/ arg.bits > arg.size * 8)) =>
      /\ out.err # "none"
      /\ out.data = arg.data

LargestIsMax ==
    /\ largest.err = "none"
    /\ largest.value \in DOMAIN scan.regions
    /\ \A n \in DOMAIN scan.regions :
          Size(scan.regions[largest.value]) >= Size(scan.regions[n])

Tied == {n \in DOMAIN scan.regions :
            Size(scan.regions[n]) = Size(scan.regions[largest.value])}

\* C5 as stated: largest_region() returns a name of greatest length, among
\* equal greatest lengths the region whose segment is earliest in the stream,
\* and raises on an empty mapping.
C5_EarliestSegmentWins ==
    largest.called =>
      IF DOMAIN scan.regions = {}
      THEN largest.err # "none"
      ELSE /\ LargestIsMax
           /\ \A n \in Tied :
                 Off(scan.regions[largest.value]) <= Off(scan.regions[n])

\* C5 amended: largest_region() returns a name of greatest length, among
\* equal greatest lengths the name that the walk met first (the region kept
\* under that name may come from a later segment of the same tag), and
\* raises on an empty mapping.
C5_FirstMetNameWins ==
    largest.called =>
      IF DOMAIN scan.regions = {}
      THEN largest.err # "none"
      ELSE /\ LargestIsMax
           /\ \A n \in Tied :
                 FirstSeen(scan, largest.value) <= FirstSeen(scan, n)

C5_Witness ==
    /\ largest.called
    /\ largest.err = "none"
    /\ Cardinality(Tied) >= 2
    /\ \E n \in DOMAIN scan.regions : n \notin Tied

\* the absolute bit positions of the last attempt's draw
DrawnBits == {8 * last.off + b : b \in last.idxs}

\* C6: orig_bytes always equals the bytes open_file read, and after every
\* damage the damaged buffer differs from orig_bytes only in bits that this
\* attempt drew (in exactly those when damage_region returned).
C6_PristineKept ==
    /\ orig_bytes = loaded
    /\ (last.op = "damage" /\ last.result \in {"done", "decode_failed"}) =>
          /\ Len(last.damaged) = Len(orig_bytes)
          /\ DiffBits(orig_bytes, last.damaged) \subseteq DrawnBits
          /\ last.err = "none" => DiffBits(orig_bytes, last.damaged) = DrawnBits

C6_Witness ==
    /\ last.op = "damage"
    /\ last.err = "none"
    /\ last.written # <<>>
    /\ Cardinality(DiffBits(orig_bytes, last.damaged)) = 2

\* C7: every region has length > 0, whatever the length fields are.
C7_RegionLengthsPositive ==
    scan.err = "none" =>
      \A n \in DOMAIN scan.regions : Size(scan.regions[n]) > 0

WrotePair ==
    /\ Len(last.written) = 2
    /\ last.written[1].bytes = orig_bytes
    /\ last.written[2].bytes = last.damaged

\* C8: with save on and the filter off, every damage whose flips succeeded
\* writes the pristine and the damaged copy, also when the codec rejects the
\* damaged bytes; with save on, nothing is written only when the damaged
\* bytes are undecodable and the filter is on.
C8_UndecodableSavedUnlessFiltered ==
    (last.op = "damage" /\ last.result \in {"done", "decode_failed"}
       /\ last.err = "none" /\ last.save) =>
      /\ ~last.filter => WrotePair
      /\ last.written = <<>> => (last.decodable = "no" /\ last.filter)

\* C9: whenever damage flips bits, the scanner was built from the loaded
\* orig_bytes and the selected name is a key of its mapping.
C9_SpanFromCurrentScan ==
    (last.op = "damage" /\ last.result \in {"done", "decode_failed"}
       /\ DiffBits(orig_bytes, last.damaged) # {}) =>
      /\ scanner.data = orig_bytes
      /\ region_var \in DOMAIN scanner.regions

Positions(seq, x) == {j \in 1..Len(seq) : seq[j] = x}

\* C10: the mapping holds one region per name met, the one recorded for the
\* last segment of that name, and list_regions() returns each name once, in
\* the order of the names' first segments.
C10_LastSpanFirstPosition ==
    /\ scan.err = "none" =>
          /\ DOMAIN scan.regions = {n \in Names : NamedAt(scan, n) # {}}
          /\ \A n \in DOMAIN scan.regions :
                LET w == scan.walked[LastSeen(scan, n)]
                IN  scan.regions[n] = SegmentRegion(w.cursor, w.seg_len)
    /\ listed.called =>
          /\ \A n \in DOMAIN scan.regions :
                Cardinality(Positions(listed.value, n)) = 1
          /\ \A j \in 1..Len(listed.value) : listed.value[j] \in DOMAIN scan.regions
          /\ \A j, k \in 1..Len(listed.value) :
                j < k => FirstSeen(scan, listed.value[j]) < FirstSeen(scan, listed.value[k])

C10_Witness ==
    /\ listed.called
    /\ \E n, m \in DOMAIN scan.regions :
          /\ n # m
          /\ FirstSeen(scan, n) < FirstSeen(scan, m)
          /\ FirstSeen(scan, m) < LastSeen(scan, n)
          /\ scan.walked[FirstSeen(scan, n)].seg_len # scan.walked[LastSeen(scan, n)].seg_len

====
